---- MODULE Spec2Model ----
(***************************************************************************)
(* Model of src/dashboard.py: the cached per-ticker fetch                  *)
(* (fetch_single_stock_data under st.cache_data(ttl=3600)) and one pass of *)
(* main(): the fetch loop that builds all_stock_data and plot_data, the    *)
(* empty check, the headline metrics, the chart, the performance table and *)
(* the company-info lookup.                                                *)
(*                                                                         *)
(* A script run is split where the outside world answers: StartRun reads   *)
(* the widgets, Fetch is one iteration of the loop of lines 73-79 (one     *)
(* call of the cached function, the provider answering on a miss), NoData  *)
(* is lines 81-84 and Dashboard lines 85-240 (the chart library and the    *)
(* info lookup answering).                                                 *)
(***************************************************************************)
EXTENDS Integers, Sequences, FiniteSets, TLC

\* ------------------------------------------------------------------ bounds
MaxDate == 3          \* calendar days 1..MaxDate
MaxRuns == 3          \* script runs of one session (SpecCache)
ClockStep == 1800     \* seconds the clock advances between two runs
MaxTime == 5400       \* the session clock stops here

\* ------------------------------------------------------- program constants
TTL == 3600           \* @st.cache_data(ttl=3600)

Dates == 1..MaxDate
Tickers == {"AAPL", "MSFT"}
PriceTypes == {"Close", "Adj Close"}
ChartTypes == {"Line Chart", "Candlestick", "Area Chart"}
Prices == {0, 100}

\* --------------------------------------------------------- float64 values
\* A float64 is NaN, +-inf (d = 0, sign in n) or the exact rational n/d, d > 0.
NaN == [k |-> "nan", n |-> 0, d |-> 1]
Inf(s) == [k |-> "inf", n |-> s, d |-> 0]
Num(n) == [k |-> "num", n |-> n, d |-> 1]

IsNaN(x) == x.k = "nan"
IsNum(x) == x.k = "num"
Sign(n) == IF n > 0 THEN 1 ELSE IF n < 0 THEN -1 ELSE 0

\* IEEE subtraction x - y
FSub(x, y) ==
    IF IsNaN(x) \/ IsNaN(y) THEN NaN
    ELSE IF x.k = "inf" /\ y.k = "inf"
         THEN (IF x.n = y.n THEN NaN ELSE x)
    ELSE IF x.k = "inf" THEN x
    ELSE IF y.k = "inf" THEN Inf(-y.n)
    ELSE [k |-> "num", n |-> x.n * y.d - y.n * x.d, d |-> x.d * y.d]

\* IEEE division x / y as numpy does it: a zero divisor gives inf or nan and
\* a warning, never an exception
FDiv(x, y) ==
    IF IsNaN(x) \/ IsNaN(y) THEN NaN
    ELSE IF x.k = "inf" THEN (IF y.k = "inf" THEN NaN
                              ELSE Inf(IF y.n < 0 THEN -x.n ELSE x.n))
    ELSE IF y.k = "inf" THEN Num(0)
    ELSE IF y.n = 0 THEN (IF x.n = 0 THEN NaN ELSE Inf(Sign(x.n)))
    ELSE [k |-> "num", n |-> x.n * y.d * Sign(y.n),
                       d |-> x.d * y.n * Sign(y.n)]

\* x * 100
FMul100(x) == IF IsNum(x) THEN [x EXCEPT !.n = x.n * 100] ELSE x

\* ((b - a) / a) * 100, the expression of lines 96 and 175
PctChange(b, a) == FMul100(FDiv(FSub(b, a), a))

\* equality of two float64 as numbers (NaN only equal to itself here: used to
\* compare what is displayed)
FEq(x, y) ==
    IF IsNum(x) /\ IsNum(y) THEN x.n * y.d = y.n * x.d ELSE x = y

\* ------------------------------------------------------------ data frames
\* What stock.history() can return for start..end: rows for some of the days
\* of the range, each with a value (or NaN) in every price field it has; the
\* frame may lack the "Adj Close" field.  empty <=> no rows.
Values == {NaN} \cup {Num(p) : p \in Prices}

RangeDates(s, e) == {d \in Dates : s <= d /\ d <= e}

Frames(s, e) ==
    UNION {
        {[kind |-> "frame", rows |-> r, fields |-> f] :
            r \in [ds -> Values],
            f \in IF ds = {} THEN {PriceTypes} ELSE {PriceTypes, {"Close"}}}
        : ds \in SUBSET RangeDates(s, e)}

\* the value fetch_single_stock_data returns when the provider call raises
None == [kind |-> "none", rows |-> <<>>, fields |-> {}]

\* everything one call of lines 18-25 can return
Outcomes(s, e) == Frames(s, e) \cup {None}

\* stock_data.empty
FrameEmpty(df) == DOMAIN df.rows = {}

\* ------------------------------------------------------------- plot_data
\* pd.DataFrame(): no index, no columns
EmptyPlot == [index |-> <<>>, columns |-> <<>>, col |-> <<>>]

RECURSIVE SortedSeq(_)
\* the days of a frame in ascending order (history() returns them so)
SortedSeq(S) ==
    IF S = {} THEN <<>>
    ELSE LET m == CHOOSE x \in S : \A y \in S : x <= y
         IN <<m>> \o SortedSeq(S \ {m})

SeqRange(q) == {q[j] : j \in 1..Len(q)}

\* plot_data[stock] = stock_data[price_type]  (line 78), for a frame that has
\* the field.  A frame without index takes the series' index; after that a
\* series is reindexed to the frame's index: days the frame does not have
\* are dropped, days the series does not have become NaN.
SetColumn(plot, stock, df) ==
    LET index == IF Len(plot.index) = 0 /\ DOMAIN df.rows # {}
                 THEN SortedSeq(DOMAIN df.rows) ELSE plot.index
        series == [d \in SeqRange(index) |->
                      IF d \in DOMAIN df.rows THEN df.rows[d] ELSE NaN]
        columns == IF stock \in SeqRange(plot.columns) THEN plot.columns
                   ELSE Append(plot.columns, stock)
    IN [index |-> index, columns |-> columns,
        col |-> [t \in SeqRange(columns) |->
                    IF t = stock THEN series ELSE plot.col[t]]]

\* plot_data.empty: an axis of length 0
PlotEmpty(plot) == Len(plot.index) = 0 \/ Len(plot.columns) = 0

\* mutant: the `else:` of line 85 left out, the dashboard follows the notice
MutRendersDashboard(plot) == TRUE

\* the else branch of lines 83-85
RendersDashboard(plot) == ~PlotEmpty(plot)

\* plot_data[stock].iloc[j] for j = -1, -2 (1-based from the end here)
ILocLast(plot, stock, back) == plot.col[stock][plot.index[Len(plot.index) + 1 - back]]
ILocFirst(plot, stock) == plot.col[stock][plot.index[1]]

\* ------------------------------------------------------ headline metrics
NoCell(stock, kind) == [kind |-> kind, stock |-> stock, price |-> NaN, delta |-> NaN]

\* one pass of the loop body of lines 91-113 for `stock`:
\*   "nodata"  cols[i].error("No data for ...")      (line 113)
\*   "error"   iloc[-2] raised IndexError, caught    (line 111)
\*   "metric"  cols[i].metric(price, delta)          (lines 104-109)
MetricCell(plot, stock) ==
    IF stock \notin SeqRange(plot.columns) THEN NoCell(stock, "nodata")
    ELSE IF Len(plot.index) < 2 THEN NoCell(stock, "error")
    ELSE LET current_price == ILocLast(plot, stock, 1)
             previous_price == ILocLast(plot, stock, 2)
         IN [kind |-> "metric", stock |-> stock, price |-> current_price,
             delta |-> PctChange(current_price, previous_price)]

\* lines 90-113
CurrentMetrics(plot, sel) == [j \in 1..Len(sel) |-> MetricCell(plot, sel[j])]

\* ---------------------------------------------------- performance table
AllNaN(plot, stock) == \A d \in SeqRange(plot.index) : IsNaN(plot.col[stock][d])

\* mutant: the dropna of line 171 left out, every column is kept
MutValidStocks(plot) == plot.columns

\* plot_data.dropna(axis=1, how='all').columns  (line 171)
ValidStocks(plot) == SelectSeq(plot.columns, LAMBDA t : ~AllNaN(plot, t))

\* lines 172-182: one row per valid stock, from the first and the last row
PerformanceDf(plot) ==
    LET valid_stocks == ValidStocks(plot)
    IN [j \in 1..Len(valid_stocks) |->
          LET start_price == ILocFirst(plot, valid_stocks[j])
              end_price == ILocLast(plot, valid_stocks[j], 1)
          IN [Stock |-> valid_stocks[j], Start |-> start_price,
              End |-> end_price, Change |-> PctChange(end_price, start_price)]]

\* [s for s in selected_stocks if s in all_stock_data]  (lines 143, 192)
AvailableStocks(sel, data) == SelectSeq(sel, LAMBDA t : t \in DOMAIN data)

\* ------------------------------------------------------------------ state
VARIABLES
    now,              \* wall clock, seconds since the session began
    cache,            \* st.cache_data: key -> [value, created]
    requests,         \* stock.history() calls made so far (line 21)
    calls,            \* history: per (ticker, start, end), the latest call of
                      \* fetch_single_stock_data: when it was made, what it
                      \* returned, when the provider gave that result, and
                      \* whether this call asked the provider
    runs,             \* script runs started
    pc,               \* "idle", "fetch", "render", "done", "crashed"
    selected_stocks, start_date, end_date, price_type,   \* the widgets
    results,          \* stock_data of each finished iteration of this run
    all_stock_data, plot_data,
    no_data_notices,  \* st.error of line 84
    metrics,          \* the cells of lines 104-113, <<>> before that stage
    charts,           \* st.plotly_chart calls
    viz_errors,       \* st.error of line 240
    performance_df, dataframes,   \* line 177 and the st.dataframe of line 188
    info_lookups      \* yf.Ticker(...).info reads (line 201)

widgetVars == <<selected_stocks, start_date, end_date, price_type>>
cacheVars == <<cache, requests, calls>>
loopVars == <<results, all_stock_data, plot_data>>
outVars == <<no_data_notices, metrics, charts, viz_errors, performance_df,
             dataframes, info_lookups>>
vars == <<now, runs, pc, widgetVars, cacheVars, loopVars, outVars>>

\* multiselect: the chosen options, in the order chosen, none twice
Selections ==
    {<<>>} \cup {<<t>> : t \in Tickers}
    \cup {<<t, u>> : <<t, u>> \in {x \in Tickers \X Tickers : x[1] # x[2]}}

Init ==
    /\ now = 0
    /\ cache = <<>>
    /\ requests = 0
    /\ calls = <<>>
    /\ runs = 0
    /\ pc = "idle"
    /\ selected_stocks = <<>>
    /\ start_date = 1
    /\ end_date = 1
    /\ price_type = "Close"
    /\ results = <<>>
    /\ all_stock_data = <<>>
    /\ plot_data = EmptyPlot
    /\ no_data_notices = 0
    /\ metrics = <<>>
    /\ charts = 0
    /\ viz_errors = 0
    /\ performance_df = <<>>
    /\ dataframes = 0
    /\ info_lookups = 0

\* lines 32-71 (and 241-242): a run of the script starts `dt` seconds after
\* the last one ended, reads the widgets and starts from fresh locals; with
\* nothing selected it only shows the st.info of line 242.
StartRun(sel, s, e, pt, dt) ==
    /\ pc \in {"idle", "done", "crashed"}
    /\ now + dt <= MaxTime
    /\ now' = now + dt
    /\ runs' = runs + 1
    /\ selected_stocks' = sel
    /\ start_date' = s
    /\ end_date' = e
    /\ price_type' = pt
    /\ results' = <<>>
    /\ all_stock_data' = <<>>
    /\ plot_data' = EmptyPlot
    /\ no_data_notices' = 0
    /\ metrics' = <<>>
    /\ charts' = 0
    /\ viz_errors' = 0
    /\ performance_df' = <<>>
    /\ dataframes' = 0
    /\ info_lookups' = 0
    /\ pc' = IF sel = <<>> THEN "done" ELSE "fetch"
    /\ UNCHANGED cacheVars

\* st.cache_data(ttl=3600), line 16: the entry of (ticker, start, end) is
\* served while it is younger than the TTL
CacheKey(stock, s, e) == <<stock, s, e>>

\* mutant: the ttl argument left out, an entry is served for ever
MutCacheHit(key) == key \in DOMAIN cache

CacheHit(key) == key \in DOMAIN cache /\ now - cache[key].created < TTL

Put(f, key, v) == [x \in DOMAIN f \cup {key} |-> IF x = key THEN v ELSE f[x]]

\* lines 76-79 with the value stock_data the call returned
LoopBody(stock, stock_data) ==
    LET kept == stock_data # None /\ ~FrameEmpty(stock_data)
        key_error == kept /\ price_type \notin stock_data.fields
        last == Len(results) + 1 = Len(selected_stocks)
    IN /\ results' = Append(results, stock_data)
       /\ all_stock_data' = IF kept THEN Put(all_stock_data, stock, stock_data)
                            ELSE all_stock_data
       /\ plot_data' = IF kept /\ ~key_error
                       THEN SetColumn(plot_data, stock, stock_data)
                       ELSE plot_data
       /\ pc' = IF key_error THEN "crashed"
                ELSE IF last THEN "render" ELSE "fetch"

\* one iteration of lines 73-79: the cached call of lines 16-25, then the
\* loop body.  On a miss the provider answers with any frame of the range or
\* raises (None); the answer is stored with the time of the call.
Fetch ==
    /\ pc = "fetch"
    /\ LET stock == selected_stocks[Len(results) + 1]
           key == CacheKey(stock, start_date, end_date)
       IN IF CacheHit(key)
          THEN /\ LoopBody(stock, cache[key].value)
               /\ calls' = Put(calls, <<stock, start_date, end_date>>,
                               [at |-> now, result |-> cache[key].value,
                                fetched |-> cache[key].created, miss |-> FALSE])
               /\ UNCHANGED <<cache, requests>>
          ELSE \E data \in Outcomes(start_date, end_date) :
               /\ LoopBody(stock, data)
               /\ cache' = Put(cache, key, [value |-> data, created |-> now])
               /\ requests' = requests + 1
               /\ calls' = Put(calls, <<stock, start_date, end_date>>,
                               [at |-> now, result |-> data,
                                fetched |-> now, miss |-> TRUE])
    /\ UNCHANGED <<now, runs, widgetVars, outVars>>

\* lines 81-84: nothing was fetched
NoData ==
    /\ pc = "render"
    /\ PlotEmpty(plot_data)
    /\ no_data_notices' = no_data_notices + 1
    /\ pc' = "done"
    /\ UNCHANGED <<now, runs, widgetVars, cacheVars, loopVars, metrics, charts,
                   viz_errors, performance_df, dataframes, info_lookups>>

\* lines 85-240: the metrics, then inside the try of line 117 the chart, the
\* performance table and the company info.  The chart library may raise
\* (line 239 catches it and the rest is skipped).  The info lookup is made
\* once when a stock is available; whether it answers or raises (line 234
\* catches it) only changes what that panel displays.
Dashboard ==
    /\ pc = "render"
    /\ RendersDashboard(plot_data)
    /\ metrics' = CurrentMetrics(plot_data, selected_stocks)
    /\ \E chart_type \in ChartTypes, chart_ok \in BOOLEAN :
         LET available_stocks == AvailableStocks(selected_stocks, all_stock_data)
             drawn == chart_type # "Candlestick" \/ Len(available_stocks) > 0
         IN IF ~chart_ok
            THEN /\ viz_errors' = viz_errors + 1
                 /\ UNCHANGED <<charts, performance_df, dataframes, info_lookups>>
            ELSE /\ charts' = IF drawn THEN charts + 1 ELSE charts
                 /\ performance_df' = PerformanceDf(plot_data)
                 /\ dataframes' = IF Len(ValidStocks(plot_data)) > 0
                                  THEN dataframes + 1 ELSE dataframes
                 /\ info_lookups' = IF Len(available_stocks) > 0
                                    THEN info_lookups + 1 ELSE info_lookups
                 /\ UNCHANGED viz_errors
    /\ pc' = "done"
    /\ UNCHANGED <<now, runs, widgetVars, cacheVars, loopVars, no_data_notices>>

\* ---------------------------------------------------------- specifications
\* One run of the script with any selection, any date range and any price
\* field, the provider answering anything.
Run ==
    /\ runs = 0
    /\ \E sel \in Selections, s \in Dates, e \in Dates, pt \in PriceTypes :
         StartRun(sel, s, e, pt, 0)

Next == Run \/ Fetch \/ NoData \/ Dashboard

Spec == Init /\ [][Next]_vars

\* A session of up to MaxRuns runs over short date ranges (one day, or start
\* after end), each rerun coming at once or ClockStep seconds after the run
\* before it.  The price field stays "Close": fetch_single_stock_data does
\* not read it and it is no part of the cache key.
SessionRanges == {<<1, 1>>, <<2, 1>>}
Delays == {0, ClockStep}

Rerun ==
    /\ runs < MaxRuns
    /\ \E sel \in Selections, r \in SessionRanges,
          dt \in IF runs = 0 THEN {0} ELSE Delays :
         StartRun(sel, r[1], r[2], "Close", dt)

NextCache == Rerun \/ Fetch \/ NoData \/ Dashboard

SpecCache == Init /\ [][NextCache]_vars

\* ------------------------------------------------------------ the claims
\* a fetch that "succeeded with data": not None and not empty
Successful(r) == r # None /\ ~FrameEmpty(r)

LoopFinished == pc \in {"render", "done"} /\ Len(results) = Len(selected_stocks)

\* the non-missing values of a column of the table, in date order
NonMissing(plot, stock) ==
    SelectSeq([j \in 1..Len(plot.index) |-> plot.col[stock][plot.index[j]]],
              LAMBDA v : ~IsNaN(v))

\* C1: once the fetch loop has finished, the dates of plot_data are exactly
\* the union of the dates of the successfully fetched, non-empty series.
ClaimC1 ==
    LoopFinished =>
        SeqRange(plot_data.index) =
            UNION {DOMAIN results[j].rows :
                     j \in {x \in 1..Len(results) : Successful(results[x])}}

\* C2: the run never aborts inside the fetch loop, and when the loop is over
\* every selected ticker has been fetched and each one fetched with data is
\* in all_stock_data and is a column of plot_data.
ClaimC2 ==
    /\ pc # "crashed"
    /\ pc \in {"render", "done"} =>
         /\ Len(results) = Len(selected_stocks)
         /\ \A j \in 1..Len(results) :
              Successful(results[j]) =>
                /\ selected_stocks[j] \in DOMAIN all_stock_data
                /\ selected_stocks[j] \in SeqRange(plot_data.columns)

\* a step that is a call of fetch_single_stock_data, and its arguments
CallStep == pc = "fetch" /\ Len(results') = Len(results) + 1
CallKey == <<selected_stocks[Len(results) + 1], start_date, end_date>>
Returned == results'[Len(results')]

\* C3 as stated: a call made less than TTL after the previous call with the
\* same key returns what that call returned, the two calls together ask the
\* provider at most once, and a call that finds an entry that has outlived
\* the TTL asks the provider.
ClaimC3 ==
    [][CallStep =>
         /\ (CallKey \in DOMAIN calls /\ now - calls[CallKey].at < TTL) =>
               /\ Returned = calls[CallKey].result
               /\ (requests' - requests)
                    + (IF calls[CallKey].miss THEN 1 ELSE 0) <= 1
         /\ (CallKey \in DOMAIN calls /\ now - calls[CallKey].fetched >= TTL) =>
               requests' = requests + 1]_vars

\* C3 amended: the window starts at the provider request, not at the previous
\* call.  A call made less than TTL after the request that produced the
\* key's latest result asks the provider nothing and returns that same
\* result (None and empty frames included); a call made TTL or more after
\* it, or the first call with the key, makes exactly one request.
C3_CacheWindow ==
    [][CallStep =>
         IF CallKey \in DOMAIN calls /\ now - calls[CallKey].fetched < TTL
         THEN /\ requests' = requests
              /\ Returned = calls[CallKey].result
         ELSE requests' = requests + 1]_vars

\* C3 witness: a failed fetch (None) was served again from the cache at a
\* later time, in a session that has asked the provider twice.
C3_Witness ==
    \E k \in DOMAIN calls :
        /\ ~calls[k].miss
        /\ calls[k].at > calls[k].fetched
        /\ calls[k].result = None
        /\ requests >= 2

\* C4: in a run whose start date is after its end date no call of
\* fetch_single_stock_data is made.
ClaimC4 == start_date > end_date => Len(results) = 0

\* C5: when every selected ticker failed or came back empty, the table is
\* empty, no metric, chart, performance table or info lookup is made, and
\* the finished run has shown exactly one no-data notice.
AllFailed ==
    /\ selected_stocks # <<>>
    /\ LoopFinished
    /\ \A j \in 1..Len(results) : ~Successful(results[j])

C5_NoDataOnly ==
    AllFailed =>
        /\ PlotEmpty(plot_data)
        /\ no_data_notices = (IF pc = "done" THEN 1 ELSE 0)
        /\ metrics = <<>>
        /\ charts = 0
        /\ viz_errors = 0
        /\ performance_df = <<>>
        /\ dataframes = 0
        /\ info_lookups = 0

\* C5 witness: two tickers, one fetch raised and the other came back empty,
\* and the run ended with the notice.
C5_Witness ==
    /\ pc = "done"
    /\ Len(selected_stocks) = 2
    /\ results[1] = None
    /\ results[2] # None /\ FrameEmpty(results[2])
    /\ no_data_notices = 1

\* the metrics stage has run (a non-empty selection gives at least one cell)
MetricsShown == pc = "done" /\ metrics # <<>>

\* C6: a column with at least two non-missing values gets a metric whose
\* percent change is computed from its last two non-missing values.
ClaimC6 ==
    MetricsShown =>
        \A j \in 1..Len(selected_stocks) :
            LET stock == selected_stocks[j]
                vals == NonMissing(plot_data, stock)
            IN (stock \in SeqRange(plot_data.columns) /\ Len(vals) >= 2) =>
                 /\ metrics[j].kind = "metric"
                 /\ FEq(metrics[j].delta,
                        PctChange(vals[Len(vals)], vals[Len(vals) - 1]))

\* C7: a column with fewer than two non-missing values gets no error cell
\* and no number: its percent change is undefined.
ClaimC7 ==
    MetricsShown =>
        \A j \in 1..Len(selected_stocks) :
            LET stock == selected_stocks[j]
            IN (stock \in SeqRange(plot_data.columns)
                  /\ Len(NonMissing(plot_data, stock)) < 2) =>
                 /\ metrics[j].kind = "metric"
                 /\ IsNaN(metrics[j].delta)

\* the performance stage has run (the chart did not raise)
PerformanceRun == MetricsShown /\ viz_errors = 0

\* C8: every column with a non-missing value has a performance row with its
\* first and last non-missing values and the percent change between them.
ClaimC8 ==
    PerformanceRun =>
        \A t \in SeqRange(plot_data.columns) :
            LET vals == NonMissing(plot_data, t)
            IN Len(vals) >= 1 =>
                 \E j \in 1..Len(performance_df) :
                    /\ performance_df[j].Stock = t
                    /\ performance_df[j].Start = vals[1]
                    /\ performance_df[j].End = vals[Len(vals)]
                    /\ FEq(performance_df[j].Change,
                           PctChange(vals[Len(vals)], vals[1]))

\* C9: no metric and no performance row is produced from a denominator
\* (previous price, start price) that is zero or missing.
Defined(x) == IsNum(x) /\ x.n # 0

ClaimC9 ==
    /\ MetricsShown =>
         \A j \in 1..Len(metrics) :
            metrics[j].kind = "metric" =>
                Defined(ILocLast(plot_data, metrics[j].stock, 2))
    /\ PerformanceRun =>
         \A j \in 1..Len(performance_df) : Defined(performance_df[j].Start)

\* C10: the performance table has one row per column with a non-missing
\* value, none for the other tickers, in the order of selection; it is
\* displayed unless it has no row.
HasValue(t) ==
    /\ t \in SeqRange(plot_data.columns)
    /\ \E d \in SeqRange(plot_data.index) : ~IsNaN(plot_data.col[t][d])

C10_RowsInSelectionOrder ==
    PerformanceRun =>
        /\ [j \in 1..Len(performance_df) |-> performance_df[j].Stock]
             = SelectSeq(selected_stocks, HasValue)
        /\ dataframes = (IF Len(performance_df) > 0 THEN 1 ELSE 0)

\* C10 witness: MSFT chosen before AAPL, both with values: two rows, MSFT
\* first.
C10_Witness ==
    /\ PerformanceRun
    /\ selected_stocks = <<"MSFT", "AAPL">>
    /\ Len(performance_df) = 2
    /\ performance_df[1].Stock = "MSFT"
    /\ performance_df[2].Stock = "AAPL"

\* C10, the other case: a ticker fetched with data whose column is all
\* missing has no row.
C10_WitnessDropped ==
    /\ PerformanceRun
    /\ Len(plot_data.columns) = 2
    /\ Len(performance_df) = 1

====
